---- MODULE Spec2Model ----
(***************************************************************************)
(* Bookshelf digital twin: the persisted bookshelf (BookshelfManager), the *)
(* persisted audit session (AuditSessionManager), the diff between them    *)
(* and the request handlers of main.py that drive them.                    *)
(*                                                                         *)
(* Strings that the code normalises (title, author) are sequences of       *)
(* one-character strings, so that lower() and strip() are computed.        *)
(* Optional values are sequences of length 0 (None) or 1.                  *)
(***************************************************************************)
EXTENDS Integers, Sequences, FiniteSets, TLC

VARIABLES bookshelf, session, last, file, tasks, running

vars == <<bookshelf, session, last, file, tasks, running>>

(***************************************************************************)
(* Bounds of the model.                                                    *)
(***************************************************************************)
\* longest list of books one scan carries, and longest reorder request
MaxBatch == 2
\* largest order value a request may carry or an add may assign
MaxOrder == 2
\* cap on the photos_taken counter
MaxPhotos == 2
\* most requests in flight at once
MaxInFlight == 2
\* most requests the server receives while requests overlap
MaxRequests == 3

(***************************************************************************)
(* Optional values and strings.                                            *)
(***************************************************************************)
None == <<>>

Some(x) == <<x>>

\* Python truthiness of an Optional[str]: neither None nor "".
Truthy(c) == c # None /\ c[1] # ""

\* the letters str.lower() changes, up to U+00FF: A..Z and the upper-case
\* letters of Latin-1 (U+00C0..U+00DE without the multiplication sign)
UpperLetters == <<"A","B","C","D","E","F","G","H","I","J","K","L","M",
                  "N","O","P","Q","R","S","T","U","V","W","X","Y","Z",
                  "À","Á","Â","Ã","Ä","Å","Æ","Ç","È","É","Ê","Ë","Ì",
                  "Í","Î","Ï","Ð","Ñ","Ò","Ó","Ô","Õ","Ö","Ø","Ù","Ú",
                  "Û","Ü","Ý","Þ">>

LowerLetters == <<"a","b","c","d","e","f","g","h","i","j","k","l","m",
                  "n","o","p","q","r","s","t","u","v","w","x","y","z",
                  "à","á","â","ã","ä","å","æ","ç","è","é","ê","ë","ì",
                  "í","î","ï","ð","ñ","ò","ó","ô","õ","ö","ø","ù","ú",
                  "û","ü","ý","þ">>

\* the characters str.strip() removes, up to U+00FF: space, \t, \n, \f, \r,
\* U+000B, U+001C..U+001F, U+0085 and U+00A0 (written as the characters)
Whitespace ==
    {" ", "\t", "\n", "\f", "\r", "", "", "", "", "", "", " "}

\* the lower-case letter of each upper-case one
LowerOf == [c \in {UpperLetters[i] : i \in 1..Len(UpperLetters)} |->
               LowerLetters[CHOOSE i \in 1..Len(UpperLetters) : UpperLetters[i] = c]]

lower_char(c) == IF c \in DOMAIN LowerOf THEN LowerOf[c] ELSE c

\* str.lower()
lower(s) == [i \in 1..Len(s) |-> lower_char(s[i])]

RECURSIVE lstrip(_)
lstrip(s) ==
    IF s # <<>> /\ Head(s) \in Whitespace THEN lstrip(Tail(s)) ELSE s

RECURSIVE rstrip(_)
rstrip(s) ==
    IF s # <<>> /\ s[Len(s)] \in Whitespace
    THEN rstrip(SubSeq(s, 1, Len(s) - 1))
    ELSE s

\* str.strip()
strip(s) == rstrip(lstrip(s))

(***************************************************************************)
(* Book and its keys.                                                      *)
(***************************************************************************)
\* Book(title=..., author=..., cover_url=..., order=...)
Book(title, author, cover_url, order) ==
    [title |-> title, author |-> author, cover_url |-> cover_url, order |-> order]

\* mutant: the key of a book is lower-cased only
book_key_unstripped(b) == <<lower(b.title), lower(b.author)>>

\* Book.book_key(): lower-cased and stripped
book_key(b) == <<strip(lower(b.title)), strip(lower(b.author))>>

\* the key AuditSessionManager.remove_book_from_session builds from its arguments
session_key(title, author) == <<strip(lower(title)), strip(lower(author))>>

\* the key BookshelfManager builds inline: lower-cased, not stripped
shelf_key(title, author) == <<lower(title), lower(author)>>

(***************************************************************************)
(* A Python dict as the sequence of its <<key, value>> items in insertion  *)
(* order: assigning an existing key keeps the key's position.              *)
(***************************************************************************)
DictHas(d, k) == \E i \in 1..Len(d) : d[i][1] = k

DictGet(d, k) == d[CHOOSE i \in 1..Len(d) : d[i][1] = k][2]

DictSet(d, k, v) ==
    IF DictHas(d, k)
    THEN [i \in 1..Len(d) |-> IF d[i][1] = k THEN <<k, v>> ELSE d[i]]
    ELSE Append(d, <<k, v>>)

DictValues(d) == [i \in 1..Len(d) |-> d[i][2]]

\* [b for b in s if keep[i]]: the items of s whose flag is set, in order
RECURSIVE SelectWhere(_, _)
SelectWhere(s, keep) ==
    IF s = <<>> THEN <<>>
    ELSE IF Head(keep) THEN <<Head(s)>> \o SelectWhere(Tail(s), Tail(keep))
         ELSE SelectWhere(Tail(s), Tail(keep))

\* sorted(..., key=lambda b: b.order): stable, ascending
RECURSIVE InsertByOrder(_, _)
InsertByOrder(sorted, b) ==
    IF sorted = <<>> THEN <<b>>
    ELSE IF sorted[Len(sorted)].order <= b.order THEN Append(sorted, b)
         ELSE Append(InsertByOrder(SubSeq(sorted, 1, Len(sorted) - 1), b),
                     sorted[Len(sorted)])

RECURSIVE SortFrom(_, _)
SortFrom(acc, s) ==
    IF s = <<>> THEN acc ELSE SortFrom(InsertByOrder(acc, Head(s)), Tail(s))

\* mutant: the list is persisted as built, never sorted
sorted_by_order_skipped(s) == s

\* mutant: an unstable sort, which puts a book before those of equal order
RECURSIVE InsertBeforeEqual(_, _)
InsertBeforeEqual(sorted, b) ==
    IF sorted = <<>> THEN <<b>>
    ELSE IF sorted[Len(sorted)].order < b.order THEN Append(sorted, b)
         ELSE Append(InsertBeforeEqual(SubSeq(sorted, 1, Len(sorted) - 1), b),
                     sorted[Len(sorted)])

RECURSIVE UnstableSortFrom(_, _)
UnstableSortFrom(acc, s) ==
    IF s = <<>> THEN acc
    ELSE UnstableSortFrom(InsertBeforeEqual(acc, Head(s)), Tail(s))

sorted_by_order_unstable(s) == UnstableSortFrom(<<>>, s)

sorted_by_order(s) == SortFrom(<<>>, s)

\* max(..., default=-1)
RECURSIVE MaxOrderOf(_)
MaxOrderOf(books) ==
    IF books = <<>> THEN -1
    ELSE IF Len(books) = 1 THEN Head(books).order
    ELSE LET m == MaxOrderOf(Tail(books))
         IN IF Head(books).order > m THEN Head(books).order ELSE m

(***************************************************************************)
(* BookshelfManager: the operations on the persisted list of books.        *)
(***************************************************************************)
\* {(b.title.lower(), b.author.lower()): b for b in bookshelf.books}
RECURSIVE ShelfDictFrom(_, _)
ShelfDictFrom(d, books) ==
    IF books = <<>> THEN d
    ELSE ShelfDictFrom(
             DictSet(d, shelf_key(Head(books).title, Head(books).author), Head(books)),
             Tail(books))

\* the loop of add_books over the incoming books
RECURSIVE AddLoop(_, _, _)
AddLoop(existing_books, max_order, books) ==
    IF books = <<>> THEN existing_books
    ELSE LET book == Head(books)
             key  == shelf_key(book.title, book.author)
         IN IF ~DictHas(existing_books, key)
            THEN AddLoop(DictSet(existing_books, key,
                                 Book(book.title, book.author, book.cover_url,
                                      max_order + 1)),
                         max_order + 1, Tail(books))
            ELSE AddLoop(DictSet(existing_books, key, book), max_order, Tail(books))

\* BookshelfManager.add_books: the list it persists
add_books(shelf_books, books) ==
    sorted_by_order(
        DictValues(AddLoop(ShelfDictFrom(<<>>, shelf_books),
                           MaxOrderOf(shelf_books), books)))

\* the filter of remove_book: does the stored book b match the request
remove_matches(b, title, author) ==
    lower(b.title) = lower(title) /\ lower(b.author) = lower(author)

\* mutant: remove_book without its renumbering loop
renormalize_skipped(books) == books

\* the renumbering loop of remove_book
renormalize(books) ==
    [i \in 1..Len(books) |->
        Book(books[i].title, books[i].author, books[i].cover_url, i - 1)]

\* mutant: the books are renumbered only when one was taken away
remove_book_renumbering_on_match(shelf_books, title, author) ==
    LET kept == SelectWhere(shelf_books,
                            [i \in 1..Len(shelf_books) |->
                                ~remove_matches(shelf_books[i], title, author)])
    IN IF Len(kept) = Len(shelf_books) THEN shelf_books ELSE renormalize(kept)

\* BookshelfManager.remove_book: the list it persists
remove_book(shelf_books, title, author) ==
    renormalize(
        SelectWhere(shelf_books,
                    [i \in 1..Len(shelf_books) |->
                        ~remove_matches(shelf_books[i], title, author)]))

\* {(b["title"].lower(), b["author"].lower()): b["order"] for b in book_orders}
RECURSIVE OrderMapFrom(_, _)
OrderMapFrom(d, book_orders) ==
    IF book_orders = <<>> THEN d
    ELSE OrderMapFrom(
             DictSet(d, shelf_key(Head(book_orders).title, Head(book_orders).author),
                     Head(book_orders).order),
             Tail(book_orders))

\* BookshelfManager.reorder_books: the list it persists
reorder_books(shelf_books, book_orders) ==
    LET order_map == OrderMapFrom(<<>>, book_orders)
        updated_books ==
            [i \in 1..Len(shelf_books) |->
                LET book == shelf_books[i]
                    key  == shelf_key(book.title, book.author)
                IN Book(book.title, book.author, book.cover_url,
                        IF DictHas(order_map, key) THEN DictGet(order_map, key)
                        ELSE book.order)]
    IN sorted_by_order(updated_books)

\* BookshelfManager.clear_bookshelf: the list it persists
clear_bookshelf == <<>>

(***************************************************************************)
(* AuditSessionManager: the operations on the persisted audit session.     *)
(***************************************************************************)
\* datetime.now().isoformat(): one abstract instant
Now == "now"

\* AuditSession(): every field at its default
AuditSession ==
    [scanned_books |-> <<>>, photos_taken |-> 0,
     started_at |-> None, last_scan_at |-> None]

\* AuditSessionManager.start_session
start_session ==
    [scanned_books |-> <<>>, photos_taken |-> 0,
     started_at |-> Some(Now), last_scan_at |-> None]

\* {b.book_key(): b for b in session.scanned_books}
RECURSIVE SessionDictFrom(_, _)
SessionDictFrom(d, books) ==
    IF books = <<>> THEN d
    ELSE SessionDictFrom(DictSet(d, book_key(Head(books)), Head(books)), Tail(books))

\* mutant: a scanned book always replaces the stored one, as a manual one does
scan_replaces_always(book, stored) == TRUE

\* may the incoming book replace the stored one of the same key
scan_replaces(book, stored) == Truthy(book.cover_url) /\ ~Truthy(stored.cover_url)

\* the loop of add_scanned_books over the incoming books
RECURSIVE ScanLoop(_, _)
ScanLoop(existing, books) ==
    IF books = <<>> THEN existing
    ELSE LET book == Head(books)
             key  == book_key(book)
         IN IF ~DictHas(existing, key)
            THEN ScanLoop(DictSet(existing, key, book), Tail(books))
            ELSE IF scan_replaces(book, DictGet(existing, key))
                 THEN ScanLoop(DictSet(existing, key, book), Tail(books))
                 ELSE ScanLoop(existing, Tail(books))

\* mutant: an add leaves started_at as it finds it
lazy_started_at_never(s) == s.started_at

\* the lazy start of add_scanned_books and add_manual_book
lazy_started_at(s) == IF s.started_at = None THEN Some(Now) ELSE s.started_at

\* mutant: photos_taken counts the books of the photo
add_scanned_books_counting_books(s, books) ==
    [scanned_books |->
        DictValues(ScanLoop(SessionDictFrom(<<>>, s.scanned_books), books)),
     photos_taken  |-> s.photos_taken + Len(books),
     started_at    |-> lazy_started_at(s),
     last_scan_at  |-> Some(Now)]

\* AuditSessionManager.add_scanned_books
add_scanned_books(s, books) ==
    [scanned_books |->
        DictValues(ScanLoop(SessionDictFrom(<<>>, s.scanned_books), books)),
     photos_taken  |-> s.photos_taken + 1,
     started_at    |-> lazy_started_at(s),
     last_scan_at  |-> Some(Now)]

\* mutant: a manual book is deduplicated as a scanned one is
add_manual_book_deduplicating(s, book) ==
    [scanned_books |->
        DictValues(ScanLoop(SessionDictFrom(<<>>, s.scanned_books), <<book>>)),
     photos_taken  |-> s.photos_taken,
     started_at    |-> lazy_started_at(s),
     last_scan_at  |-> Some(Now)]

\* AuditSessionManager.add_manual_book
add_manual_book(s, book) ==
    [scanned_books |->
        DictValues(DictSet(SessionDictFrom(<<>>, s.scanned_books),
                           book_key(book), book)),
     photos_taken  |-> s.photos_taken,
     started_at    |-> lazy_started_at(s),
     last_scan_at  |-> Some(Now)]

\* mutant: a removal starts the session and stamps it, as an add does
remove_book_from_session_stamping(s, title, author) ==
    [scanned_books |->
        SelectWhere(s.scanned_books,
                    [i \in 1..Len(s.scanned_books) |->
                        book_key(s.scanned_books[i]) # session_key(title, author)]),
     photos_taken  |-> s.photos_taken,
     started_at    |-> lazy_started_at(s),
     last_scan_at  |-> Some(Now)]

\* AuditSessionManager.remove_book_from_session
remove_book_from_session(s, title, author) ==
    [s EXCEPT !.scanned_books =
        SelectWhere(s.scanned_books,
                    [i \in 1..Len(s.scanned_books) |->
                        book_key(s.scanned_books[i]) # session_key(title, author)])]

\* mutant: clearing opens a new session
clear_session_started == start_session

\* mutant: clearing stamps the session as an add does
clear_session_stamped ==
    [scanned_books |-> <<>>, photos_taken |-> 0,
     started_at |-> None, last_scan_at |-> Some(Now)]

\* AuditSessionManager.clear_session
clear_session == AuditSession

\* {b.book_key() for b in books}
KeySet(books) == {book_key(books[i]) : i \in 1..Len(books)}

\* [b for b in books if b.book_key() in keys]
BooksWithKeyIn(books, keys) ==
    SelectWhere(books, [i \in 1..Len(books) |-> book_key(books[i]) \in keys])

\* mutant: the set difference of books_to_remove taken the wrong way round
to_remove_keys_swapped(audit_keys, main_keys) == audit_keys \ main_keys

\* mutant: every scanned key counted as new
to_add_keys_all(audit_keys, main_keys) == audit_keys

\* mutant: every scanned key counted as matching
matching_keys_all(audit_keys, main_keys) == audit_keys

\* the key sets of compute_diff
to_add_keys(audit_keys, main_keys) == audit_keys \ main_keys

to_remove_keys(audit_keys, main_keys) == main_keys \ audit_keys

matching_keys(audit_keys, main_keys) == audit_keys \cap main_keys

\* mutant: the matching books are the copies of the bookshelf
compute_diff_shelf_copies(s, main_books) ==
    LET audit_keys == KeySet(s.scanned_books)
        main_keys  == KeySet(main_books)
    IN [books_to_add    |-> BooksWithKeyIn(s.scanned_books,
                                           to_add_keys(audit_keys, main_keys)),
        books_to_remove |-> BooksWithKeyIn(main_books,
                                           to_remove_keys(audit_keys, main_keys)),
        books_matching  |-> BooksWithKeyIn(main_books,
                                           matching_keys(audit_keys, main_keys))]

\* AuditSessionManager.compute_diff
compute_diff(s, main_books) ==
    LET audit_keys == KeySet(s.scanned_books)
        main_keys  == KeySet(main_books)
    IN [books_to_add    |-> BooksWithKeyIn(s.scanned_books,
                                           to_add_keys(audit_keys, main_keys)),
        books_to_remove |-> BooksWithKeyIn(main_books,
                                           to_remove_keys(audit_keys, main_keys)),
        books_matching  |-> BooksWithKeyIn(s.scanned_books,
                                           matching_keys(audit_keys, main_keys))]

(***************************************************************************)
(* Requests.  The books a handler builds carry no order (Book's default,   *)
(* 0) and a cover that the lookup found (a URL) or did not (None).         *)
(***************************************************************************)
Dune == <<"D","u","n","e">>

DuneSpaced == <<"D","u","n","e"," ">>

DuneUpper == <<"D","U","N","E">>

Emma == <<"E","m","m","a">>

Herbert == <<"F","H">>

HerbertSpaced == <<" ","F","H">>

HerbertLower == <<"f","h">>

Austen == <<"J","A">>

\* the (title, author) pairs that scans and manual entries carry
Names == {<<Dune, Herbert>>, <<DuneSpaced, HerbertSpaced>>, <<Emma, Austen>>}

\* the (title, author) pairs that remove requests carry
RemoveNames == Names \cup {<<DuneUpper, HerbertLower>>}

Covers == {None, Some("c1")}

InputBooks == {Book(n[1], n[2], c, 0) : n \in Names, c \in Covers}

SeqsOfLen(S, lo, hi) == UNION {[1..k -> S] : k \in lo..hi}

\* a scan that detected nothing returns before it touches a store
Batches == SeqsOfLen(InputBooks, 1, MaxBatch)

\* the (title, author) pairs that reorder requests carry
ReorderNames == {<<DuneUpper, HerbertLower>>, <<Emma, Austen>>}

OrderItems ==
    {[title |-> n[1], author |-> n[2], order |-> o] :
        n \in ReorderNames, o \in 0..MaxOrder}

ReorderRequests == SeqsOfLen(OrderItems, 0, MaxBatch)

\* the requests of the whole-server specification
OneBookBatches == SeqsOfLen(InputBooks, 1, 1)

OneItemReorders == SeqsOfLen(OrderItems, 0, 1)

Flags == BOOLEAN \X BOOLEAN

(***************************************************************************)
(* The two services of the scan endpoints.  What the vision model and      *)
(* OpenLibrary answer is input.  A text is the sequence of its pieces:     *)
(* each blank character is a piece, three backquotes are a piece, and the  *)
(* other pieces are the tokens of JSON (a punctuation mark, a string       *)
(* literal with the str it denotes, a number, one of the constants true,   *)
(* false, null, NaN, Infinity and -Infinity) or a word, any other run of   *)
(* characters without a blank.  A str is a                                 *)
(* sequence of one-character strings.  A decoded JSON value is a record    *)
(* with its type; an object holds its members as a dict.                   *)
(***************************************************************************)
JsonNull == [type |-> "null"]

JsonBool(b) == [type |-> "bool", value |-> b]

JsonNumber(n) == [type |-> "number", value |-> n]

\* the floats that the constants NaN, Infinity and -Infinity decode to, by
\* their str: "nan", "inf", "-inf"
JsonFloat(name) == [type |-> "float", value |-> name]

JsonString(s) == [type |-> "string", value |-> s]

JsonList(items) == [type |-> "list", items |-> items]

JsonObject(members) == [type |-> "object", members |-> members]

\* Python truthiness of a decoded JSON value
JsonTruthy(v) ==
    CASE v.type = "null"   -> FALSE
      [] v.type = "bool"   -> v.value
      [] v.type = "number" -> v.value # 0
      [] v.type = "float"  -> TRUE
      [] v.type = "string" -> v.value # <<>>
      [] v.type = "list"   -> v.items # <<>>
      [] v.type = "object" -> v.members # <<>>

\* dict.get(key, default)
JsonGet(object, key, default) ==
    IF DictHas(object.members, key) THEN DictGet(object.members, key) ELSE default

\* can a for loop or a comprehension run over the value: a list, a dict, a str
iterable(v) == v.type \in {"list", "object", "string"}

\* what it takes from the value: the items of a list, the keys of a dict,
\* the characters of a str
elements(v) ==
    CASE v.type = "list"   -> v.items
      [] v.type = "object" ->
            [i \in 1..Len(v.members) |-> JsonString(v.members[i][1])]
      [] v.type = "string" ->
            [i \in 1..Len(v.value) |-> JsonString(<<v.value[i]>>)]

\* the str of a sequence of one-character strings, as one string
RECURSIVE concat(_)
concat(s) == IF s = <<>> THEN "" ELSE Head(s) \o concat(Tail(s))

\* str(v) and repr(v) of a decoded value, as an f-string formats it (strings
\* without quotes, backslashes or control characters)
RECURSIVE py_str(_)
RECURSIVE repr_joined(_)
RECURSIVE members_joined(_)
py_repr(v) ==
    IF v.type = "string" THEN "'" \o concat(v.value) \o "'" ELSE py_str(v)

repr_joined(items) ==
    IF items = <<>> THEN ""
    ELSE IF Len(items) = 1 THEN py_repr(items[1])
    ELSE py_repr(items[1]) \o ", " \o repr_joined(Tail(items))

members_joined(members) ==
    IF members = <<>> THEN ""
    ELSE LET first == "'" \o concat(members[1][1]) \o "': " \o py_repr(members[1][2])
         IN IF Len(members) = 1 THEN first
            ELSE first \o ", " \o members_joined(Tail(members))

py_str(v) ==
    CASE v.type = "null"   -> "None"
      [] v.type = "bool"   -> IF v.value THEN "True" ELSE "False"
      [] v.type = "number" -> ToString(v.value)
      [] v.type = "float"  -> v.value
      [] v.type = "string" -> concat(v.value)
      [] v.type = "list"   -> "[" \o repr_joined(v.items) \o "]"
      [] v.type = "object" -> "{" \o members_joined(v.members) \o "}"

\* the pieces of a text
Blank(c) == [kind |-> "blank", char |-> c]

Punct(c) == [kind |-> "punct", char |-> c]

Str(s) == [kind |-> "string", value |-> s]

Num(n) == [kind |-> "number", value |-> n]

Lit(name) == [kind |-> "literal", name |-> name]

Word(w) == [kind |-> "word", text |-> w]

\* three backquotes
Fence == [kind |-> "fence"]

Space == Blank(" ")

Newline == Blank("\n")

\* the blanks that JSON allows between its tokens
JsonWhitespace == {" ", "\t", "\n", "\r"}

\* json.loads: a value, with nothing but blanks around it and between its
\* tokens; anything else raises json.JSONDecodeError
NotJson == [ok |-> FALSE]

Parsed(value, rest) == [ok |-> TRUE, value |-> value, rest |-> rest]

Decoded(value) == [ok |-> TRUE, value |-> value]

IsPunct(tokens, c) ==
    tokens # <<>> /\ Head(tokens).kind = "punct" /\ Head(tokens).char = c

RECURSIVE parse_value(_)
RECURSIVE parse_items(_, _)
RECURSIVE parse_members(_, _)
\* after an item of a list: the list ends or goes on
items_after(items, parsed) ==
    IF ~parsed.ok THEN NotJson
    ELSE IF IsPunct(parsed.rest, "]")
    THEN Parsed(JsonList(Append(items, parsed.value)), Tail(parsed.rest))
    ELSE IF IsPunct(parsed.rest, ",")
    THEN parse_items(Append(items, parsed.value), Tail(parsed.rest))
    ELSE NotJson

parse_items(items, tokens) == items_after(items, parse_value(tokens))

\* after a member of an object; a key that comes again takes the new value
members_after(members, key, parsed) ==
    IF ~parsed.ok THEN NotJson
    ELSE IF IsPunct(parsed.rest, "}")
    THEN Parsed(JsonObject(DictSet(members, key, parsed.value)), Tail(parsed.rest))
    ELSE IF IsPunct(parsed.rest, ",")
    THEN parse_members(DictSet(members, key, parsed.value), Tail(parsed.rest))
    ELSE NotJson

parse_members(members, tokens) ==
    IF tokens # <<>> /\ Head(tokens).kind = "string" /\ IsPunct(Tail(tokens), ":")
    THEN members_after(members, Head(tokens).value,
                       parse_value(Tail(Tail(tokens))))
    ELSE NotJson

parse_value(tokens) ==
    IF tokens = <<>> THEN NotJson
    ELSE LET token == Head(tokens)
             rest  == Tail(tokens)
         IN CASE token.kind = "string" -> Parsed(JsonString(token.value), rest)
              [] token.kind = "number" -> Parsed(JsonNumber(token.value), rest)
              [] token.kind = "literal" /\ token.name = "null" ->
                    Parsed(JsonNull, rest)
              [] token.kind = "literal" /\ token.name \in {"true", "false"} ->
                    Parsed(JsonBool(token.name = "true"), rest)
              [] token.kind = "literal" /\ token.name = "NaN" ->
                    Parsed(JsonFloat("nan"), rest)
              [] token.kind = "literal" /\ token.name = "Infinity" ->
                    Parsed(JsonFloat("inf"), rest)
              [] token.kind = "literal" /\ token.name = "-Infinity" ->
                    Parsed(JsonFloat("-inf"), rest)
              [] token.kind = "punct" /\ token.char = "[" ->
                    IF IsPunct(rest, "]") THEN Parsed(JsonList(<<>>), Tail(rest))
                    ELSE parse_items(<<>>, rest)
              [] token.kind = "punct" /\ token.char = "{" ->
                    IF IsPunct(rest, "}") THEN Parsed(JsonObject(<<>>), Tail(rest))
                    ELSE parse_members(<<>>, rest)
              [] OTHER -> NotJson

\* the whole text must be the value
whole_text(parsed) ==
    IF parsed.ok /\ parsed.rest = <<>> THEN Decoded(parsed.value) ELSE NotJson

json_loads(text) ==
    whole_text(parse_value(
        SelectSeq(text, LAMBDA piece :
            ~(piece.kind = "blank" /\ piece.char \in JsonWhitespace))))

\* the keys of the two answers, and the ISBN of the sample
KeyBooks == <<"b","o","o","k","s">>

KeyTitle == <<"t","i","t","l","e">>

KeyAuthor == <<"a","u","t","h","o","r">>

KeyDocs == <<"d","o","c","s">>

KeyCoverI == <<"c","o","v","e","r","_","i">>

KeyIsbn == <<"i","s","b","n">>

KeyNumFound == <<"n","u","m","F","o","u","n","d">>

SampleIsbn == <<"9","7","8","0","1","4","1","4","3","9","5","8","7">>

\* {"title": ..., "author": ...}
JsonBookText(title, author) ==
    <<Punct("{"), Str(KeyTitle), Punct(":"), Space, Str(title), Punct(","), Space,
      Str(KeyAuthor), Punct(":"), Space, Str(author), Punct("}")>>

\* {"books": [...]}
BooksText(inner) ==
    <<Punct("{"), Str(KeyBooks), Punct(":"), Space, Punct("[")>>
        \o inner \o <<Punct("]"), Punct("}")>>

\* answers of the vision model
ProseText ==
    <<Word("I"), Space, Word("cannot"), Space, Word("make"), Space, Word("out"),
      Space, Word("any"), Space, Word("book.")>>

EmptyBooksText == BooksText(<<>>)

NoBooksKeyText == <<Punct("{"), Punct("}")>>

\* NaN alone, which json.loads decodes to a float
NaNText == <<Lit("NaN")>>

\* {"books": {}}
BooksObjectText ==
    <<Punct("{"), Str(KeyBooks), Punct(":"), Space, Punct("{"), Punct("}"), Punct("}")>>

OneBookText == BooksText(JsonBookText(Dune, Herbert))

\* two books, one per line, as the prompt lays the list out
TwoBooksText ==
    BooksText(<<Newline, Space, Space>> \o JsonBookText(Dune, Herbert)
              \o <<Punct(","), Newline, Space, Space>>
              \o JsonBookText(Emma, Austen) \o <<Newline>>)

BareListText == <<Punct("[")>> \o JsonBookText(Dune, Herbert) \o <<Punct("]")>>

NoAuthorText ==
    BooksText(<<Punct("{"), Str(KeyTitle), Punct(":"), Space, Str(Dune), Punct("}")>>)

\* JSON followed by a line break, a json code block, a code block of another
\* tag between line breaks, a code block on one line, a list over two lines
OneBookLine == Append(OneBookText, Newline)

FencedTwoBooks ==
    <<Fence, Word("json"), Newline>> \o TwoBooksText \o <<Newline, Fence>>

PaddedFencedOneBook ==
    <<Newline, Fence, Word("JSON"), Newline>> \o OneBookText
        \o <<Newline, Fence, Newline>>

FencedOnOneLine == <<Fence>> \o OneBookText \o <<Fence>>

SplitList == <<Punct("["), Newline, Punct("]")>>

\* bodies of OpenLibrary's search answer
HtmlBody == <<Word("<html>Service"), Space, Word("Unavailable</html>")>>

ListBody == <<Punct("["), Punct("]")>>

\* {"numFound": 0, "docs": []}
NoDocsBody ==
    <<Punct("{"), Str(KeyNumFound), Punct(":"), Space, Num(0), Punct(","), Space,
      Str(KeyDocs), Punct(":"), Space, Punct("["), Punct("]"), Punct("}")>>

\* {"docs": [...]}
DocsBody(inner) ==
    <<Punct("{"), Str(KeyDocs), Punct(":"), Space, Punct("[")>>
        \o inner \o <<Punct("]"), Punct("}")>>

NoCoverBody == DocsBody(<<Punct("{"), Punct("}")>>)

CoverBody ==
    DocsBody(<<Punct("{"), Str(KeyCoverI), Punct(":"), Space, Num(1), Punct("}")>>)

IsbnBody ==
    DocsBody(<<Punct("{"), Str(KeyIsbn), Punct(":"), Space, Punct("["),
               Str(SampleIsbn), Punct("]"), Punct("}")>>)

\* str.strip() of a text
IsBlank(piece) == piece.kind = "blank" /\ piece.char \in Whitespace

RECURSIVE lstrip_text(_)
lstrip_text(text) ==
    IF text # <<>> /\ IsBlank(Head(text)) THEN lstrip_text(Tail(text)) ELSE text

RECURSIVE rstrip_text(_)
rstrip_text(text) ==
    IF text # <<>> /\ IsBlank(text[Len(text)])
    THEN rstrip_text(SubSeq(text, 1, Len(text) - 1))
    ELSE text

strip_text(text) == rstrip_text(lstrip_text(text))

\* cleaned_response.startswith(three backquotes)
starts_with_fence(text) == text # <<>> /\ Head(text) = Fence

\* str.split("\n"): the lines of a text
RECURSIVE split_lines(_)
split_lines(text) ==
    IF \A i \in 1..Len(text) : text[i] # Newline THEN <<text>>
    ELSE LET k == CHOOSE k \in 1..Len(text) :
                      text[k] = Newline /\ \A i \in 1..(k - 1) : text[i] # Newline
         IN <<SubSeq(text, 1, k - 1)>> \o split_lines(SubSeq(text, k + 1, Len(text)))

\* "\n".join(lines)
RECURSIVE join_lines(_)
join_lines(lines) ==
    IF lines = <<>> THEN <<>>
    ELSE IF Len(lines) = 1 THEN lines[1]
    ELSE lines[1] \o <<Newline>> \o join_lines(Tail(lines))

\* the text handed to json.loads: the answer stripped and, when it starts
\* with a fence, without its first and its last line
without_fences(stripped, lines) ==
    IF starts_with_fence(stripped)
    THEN join_lines(SubSeq(lines, 2, Len(lines) - 1))
    ELSE stripped

cleaned_response(response_text) ==
    without_fences(strip_text(response_text),
                   split_lines(strip_text(response_text)))

\* what the call of the vision model does: it raises, or it answers a text;
\* NotCalled stands in a request that is rejected before the call
VisionTexts ==
    {ProseText, NaNText, EmptyBooksText, NoBooksKeyText, BooksObjectText,
     OneBookText,
     OneBookLine, FencedTwoBooks, PaddedFencedOneBook, FencedOnOneLine,
     BareListText, SplitList, NoAuthorText}

VisionOutcomes ==
    {[raises |-> TRUE, text |-> <<>>]}
        \cup {[raises |-> FALSE, text |-> t] : t \in VisionTexts}

NotCalled == [raises |-> FALSE, text |-> <<>>]

\* does DetectedBook(title=b["title"], author=b["author"]) pass for the
\* element b: a dict that has both keys (else TypeError or KeyError), each
\* with a str (else the ValidationError of pydantic)
detected_book_passes(b) ==
    /\ b.type = "object"
    /\ DictHas(b.members, KeyTitle)
    /\ DictHas(b.members, KeyAuthor)
    /\ DictGet(b.members, KeyTitle).type = "string"
    /\ DictGet(b.members, KeyAuthor).type = "string"

\* does the list comprehension end without an exception: data has .get (a
\* dict), data.get("books", []) can be iterated, and every element passes
comprehension_passes(data) ==
    /\ data.type = "object"
    /\ iterable(JsonGet(data, KeyBooks, JsonList(<<>>)))
    /\ \A b \in {elements(JsonGet(data, KeyBooks, JsonList(<<>>)))[i] :
                    i \in 1..Len(elements(JsonGet(data, KeyBooks, JsonList(<<>>))))} :
          detected_book_passes(b)

\* the books of the comprehension
detected_books(items) ==
    [i \in 1..Len(items) |->
        [title  |-> DictGet(items[i].members, KeyTitle).value,
         author |-> DictGet(items[i].members, KeyAuthor).value]]

\* the try block of detect_books_in_image: a text that is not JSON gives no
\* books (json.JSONDecodeError is caught); JSON of another shape raises
\* AttributeError, TypeError, KeyError or ValidationError, which is not
\* caught
books_of_answer(parsed) ==
    IF ~parsed.ok THEN [raised |-> FALSE, books |-> <<>>]
    ELSE IF ~comprehension_passes(parsed.value)
    THEN [raised |-> TRUE, books |-> <<>>]
    ELSE [raised |-> FALSE,
          books  |-> detected_books(
                         elements(JsonGet(parsed.value, KeyBooks, JsonList(<<>>))))]

\* mutant: a failing call of the vision model is taken for an empty answer
detect_books_in_image_swallowing(vision) ==
    IF vision.raises THEN [raised |-> FALSE, books |-> <<>>]
    ELSE books_of_answer(json_loads(cleaned_response(vision.text)))

\* detect_books_in_image: the exception of the call propagates
detect_books_in_image(vision) ==
    IF vision.raises THEN [raised |-> TRUE, books |-> <<>>]
    ELSE books_of_answer(json_loads(cleaned_response(vision.text)))

\* what the GET of the search does: the transport fails (connection error or
\* timeout, both httpx.HTTPError), or it answers a status and a body
LookupReplies ==
    {[transport |-> "connect_error", status_code |-> 0, body |-> <<>>],
     [transport |-> "timeout", status_code |-> 0, body |-> <<>>],
     [transport |-> "ok", status_code |-> 302, body |-> HtmlBody],
     [transport |-> "ok", status_code |-> 503, body |-> HtmlBody]}
        \cup {[transport |-> "ok", status_code |-> 200, body |-> b] :
                 b \in {HtmlBody, ListBody, NoDocsBody, NoCoverBody,
                        CoverBody, IsbnBody}}

Returned(cover_url) == [raised |-> FALSE, cover_url |-> cover_url]

\* an exception that get_book_cover_url does not catch
Raised == [raised |-> TRUE, cover_url |-> None]

\* the ISBN fallback: isbns[0] of a dict is a KeyError (caught), of a number
\* or a bool a TypeError (not caught)
cover_by_isbn(isbns) ==
    IF ~JsonTruthy(isbns) THEN Returned(None)
    ELSE IF isbns.type = "object" THEN Returned(None)
    ELSE IF ~iterable(isbns) THEN Raised
    ELSE Returned(Some("https://covers.openlibrary.org/b/isbn/"
                       \o py_str(elements(isbns)[1]) \o "-M.jpg"))

\* doc.get on the first search result: a doc that is no dict has no .get
\* (AttributeError, not caught)
cover_of_doc(doc) ==
    IF doc.type # "object" THEN Raised
    ELSE IF JsonTruthy(JsonGet(doc, KeyCoverI, JsonNull))
    THEN Returned(Some("https://covers.openlibrary.org/b/id/"
                       \o py_str(JsonGet(doc, KeyCoverI, JsonNull)) \o "-M.jpg"))
    ELSE cover_by_isbn(JsonGet(doc, KeyIsbn, JsonList(<<>>)))

\* data.get("docs") and len(data["docs"]) > 0, then data["docs"][0]: len of
\* a number or a bool is a TypeError (not caught), [0] of a dict a KeyError
\* (caught)
cover_of_docs(docs) ==
    IF ~JsonTruthy(docs) THEN Returned(None)
    ELSE IF docs.type = "object" THEN Returned(None)
    ELSE IF ~iterable(docs) THEN Raised
    ELSE cover_of_doc(elements(docs)[1])

\* the body decoded: the ValueError of response.json() and the
\* AttributeError of .get on a value that is no dict are not caught
cover_of_body(parsed) ==
    IF ~parsed.ok THEN Raised
    ELSE IF parsed.value.type # "object" THEN Raised
    ELSE cover_of_docs(JsonGet(parsed.value, KeyDocs, JsonNull))

\* raise_for_status passes the 2xx statuses only
is_success(status_code) == status_code \in 200..299

\* get_book_cover_url: httpx.HTTPError (transport, raise_for_status),
\* KeyError and IndexError are caught and give None
get_book_cover_url(reply) ==
    IF reply.transport # "ok" THEN Returned(None)
    ELSE IF ~is_success(reply.status_code) THEN Returned(None)
    ELSE cover_of_body(json_loads(reply.body))

\* enrich_books_with_covers: one lookup per book, in sequence; a lookup that
\* raises ends it
enrich_books_with_covers(books, replies) ==
    [raised |-> \E i \in 1..Len(books) : get_book_cover_url(replies[i]).raised,
     books  |-> [i \in 1..Len(books) |->
                   [title     |-> books[i].title,
                    author    |-> books[i].author,
                    cover_url |-> get_book_cover_url(replies[i]).cover_url]]]

\* the upload and the environment of a scan request
allowed_types == {"image/jpeg", "image/png", "image/gif", "image/webp"}

ScanRequests ==
    {[content_type |-> "image/png", api_key |-> TRUE, vision |-> v] :
        v \in VisionOutcomes}
    \cup {[content_type |-> "image/png", api_key |-> FALSE, vision |-> NotCalled]}
    \cup {[content_type |-> "application/pdf", api_key |-> k, vision |-> NotCalled] :
             k \in BOOLEAN}

\* what scan_bookshelf and audit_scan do before they touch a store: the
\* response status, which error ended the request, what detection and
\* enrichment gave, and the Book models built for the store
scan_failed(status_code, error) ==
    [status_code |-> status_code, error |-> error,
     books_detected |-> 0, enriched |-> None, books |-> <<>>]

\* ... from the enrichment on (an exception of the enrichment is handled
\* by nothing, the server answers 500)
scan_enriched(detection, enriched) ==
    IF enriched.raised
    THEN [status_code |-> 500, error |-> "unhandled",
          books_detected |-> Len(detection.books), enriched |-> None,
          books |-> <<>>]
    ELSE [status_code |-> 200, error |-> "none",
          books_detected |-> Len(detection.books),
          enriched |-> Some(Len(enriched.books)),
          books |-> [i \in 1..Len(enriched.books) |->
                       Book(enriched.books[i].title, enriched.books[i].author,
                            enriched.books[i].cover_url, 0)]]

\* ... from the detection on
scan_detected(detection, replies) ==
    IF detection.raised THEN scan_failed(500, "analyzing_image")
    ELSE IF detection.books = <<>> THEN scan_failed(200, "none")
    ELSE scan_enriched(detection,
                       enrich_books_with_covers(detection.books, replies))

scan_image(request, replies) ==
    IF request.content_type \notin allowed_types
    THEN scan_failed(400, "invalid_file_type")
    ELSE IF ~request.api_key THEN scan_failed(503, "not_configured")
    ELSE scan_detected(detect_books_in_image(request.vision), replies)

\* the answers of the lookups a request makes: one per detected book
RepliesFor(request) ==
    LET n == IF request.content_type \in allowed_types /\ request.api_key
             THEN Len(detect_books_in_image(request.vision).books) ELSE 0
    IN SeqsOfLen(LookupReplies, n, n)

(***************************************************************************)
(* State.  bookshelf and session are the two persisted documents; last is  *)
(* the log of the request served last: its handler and how many books the  *)
(* store it wrote held before (for an apply, its two flags as well); file  *)
(* is the data file of the bookshelf as the operating system holds it;     *)
(* tasks are the requests in flight on the event loop, each with the step  *)
(* its handler is at and its local variables, and running is the task     *)
(* that holds the event loop (0 when none does).                           *)
(***************************************************************************)
\* Bookshelf(): every field at its default
Bookshelf == [books |-> <<>>, last_updated |-> None]

Stamped(books) == [books |-> books, last_updated |-> Some(Now)]

\* json.dump writes the document piece by piece: the opening brace, the
\* books one after another, last_updated, the closing brace
json_dump(document) ==
    <<[chunk |-> "{"]>>
    \o [i \in 1..Len(document.books) |-> [chunk |-> "book", book |-> document.books[i]]]
    \o <<[chunk |-> "last_updated", value |-> document.last_updated],
         [chunk |-> "}"]>>

\* json.load: only a text that json.dump completed decodes
json_load(content) ==
    LET n == Len(content)
    IN IF /\ n >= 3
          /\ content[1].chunk = "{"
          /\ content[n].chunk = "}"
          /\ content[n - 1].chunk = "last_updated"
          /\ \A i \in 2..(n - 2) : content[i].chunk = "book"
       THEN [ok |-> TRUE,
             document |-> [books |-> [i \in 1..(n - 3) |-> content[i + 1].book],
                           last_updated |-> content[n - 1].value]]
       ELSE [ok |-> FALSE]

\* a free place among the requests in flight
NoTask == [kind |-> "none"]

\* the data file after a _save that ran to its end
Closed(document) ==
    [content |-> json_dump(document), pending |-> <<>>, open |-> FALSE]

Init ==
    /\ bookshelf = Bookshelf
    /\ session = AuditSession
    /\ last = [op |-> "init", scans |-> 0]
    /\ file = Closed(Bookshelf)
    /\ tasks = [i \in 1..MaxInFlight |-> NoTask]
    /\ running = 0

\* POST /scan, from a successful detection on
ScanBookshelf(books) ==
    /\ LET added == add_books(bookshelf.books, books)
       IN /\ MaxOrderOf(added) <= MaxOrder
          /\ bookshelf' = Stamped(added)
    /\ UNCHANGED session

\* POST /bookshelf/book
AddBook(book) ==
    /\ LET added == add_books(bookshelf.books, <<book>>)
       IN /\ MaxOrderOf(added) <= MaxOrder
          /\ bookshelf' = Stamped(added)
    /\ UNCHANGED session

\* DELETE /bookshelf/book
RemoveBook(title, author) ==
    /\ bookshelf' = Stamped(remove_book(bookshelf.books, title, author))
    /\ UNCHANGED session

\* PUT /bookshelf/reorder
ReorderBooks(book_orders) ==
    /\ bookshelf' = Stamped(reorder_books(bookshelf.books, book_orders))
    /\ UNCHANGED session

\* DELETE /bookshelf
ClearBookshelf ==
    /\ bookshelf' = Stamped(clear_bookshelf)
    /\ UNCHANGED session

\* POST /audit/start
StartAudit ==
    /\ session' = start_session
    /\ UNCHANGED bookshelf

\* POST /audit/scan, from a successful detection on
AuditScan(books) ==
    /\ session.photos_taken < MaxPhotos
    /\ session' = add_scanned_books(session, books)
    /\ UNCHANGED bookshelf

\* POST /audit/book
AuditAddManualBook(book) ==
    /\ session' = add_manual_book(session, book)
    /\ UNCHANGED bookshelf

\* DELETE /audit/book
AuditRemoveBook(title, author) ==
    /\ session' = remove_book_from_session(session, title, author)
    /\ UNCHANGED bookshelf

\* DELETE /audit
ClearAudit ==
    /\ session' = clear_session
    /\ UNCHANGED bookshelf

\* mutant: only the first missing book is removed
RemoveFirstOnly(shelf_books, books_to_remove) ==
    IF books_to_remove = <<>> THEN shelf_books
    ELSE remove_book(shelf_books, Head(books_to_remove).title,
                     Head(books_to_remove).author)

\* the removals of apply_audit_diff, one remove_book per missing book
RECURSIVE RemoveEach(_, _)
RemoveEach(shelf_books, books_to_remove) ==
    IF books_to_remove = <<>> THEN shelf_books
    ELSE RemoveEach(remove_book(shelf_books, Head(books_to_remove).title,
                                Head(books_to_remove).author),
                    Tail(books_to_remove))

\* apply_audit_diff: the bookshelf it leaves
apply_audit_diff(shelf, s, add_new_books, remove_missing_books) ==
    LET diff     == compute_diff(s, shelf.books)
        adds     == add_new_books /\ diff.books_to_add # <<>>
        removes  == remove_missing_books /\ diff.books_to_remove # <<>>
        added    == IF adds THEN Stamped(add_books(shelf.books, diff.books_to_add))
                    ELSE shelf
    IN IF removes THEN Stamped(RemoveEach(added.books, diff.books_to_remove))
       ELSE added

\* POST /audit/apply
ApplyAuditDiff(add_new_books, remove_missing_books) ==
    /\ MaxOrderOf(apply_audit_diff(bookshelf, session, add_new_books, FALSE).books)
           <= MaxOrder
    /\ bookshelf' = apply_audit_diff(bookshelf, session,
                                     add_new_books, remove_missing_books)
    /\ session' = clear_session

\* GET /audit/diff: the diff of its response
get_audit_diff(shelf, s) == compute_diff(s, shelf.books)

\* GET /audit/diff
GetAuditDiff == UNCHANGED <<bookshelf, session>>

\* the saves of a request run to their end, and it is the one in flight
Saved == file' = Closed(bookshelf') /\ UNCHANGED <<tasks, running>>

\* the log entry of a request that wrote one store
Served(op, before) == last' = [op |-> op, before |-> before] /\ Saved

\* the log entry of a session request: the number of books, the number of
\* them with a cover and whether started_at was set before it, and the
\* add_scanned_books calls made since the session was last started or
\* cleared, and the number of books the request brought
ServedAudit(op, scans, received) ==
    /\ last' = [op |-> op, before |-> Len(session.scanned_books),
                received |-> received,
                covers |-> Cardinality({i \in 1..Len(session.scanned_books) :
                                          Truthy(session.scanned_books[i].cover_url)}),
                started |-> Truthy(session.started_at), scans |-> scans]
    /\ Saved

\* the log entry of a whole scan request: what was uploaded, whether the
\* credential was set, what the vision model did, and how the request ended
ServedScan(op, request, response) ==
    /\ last' = [op |-> op, content_type |-> request.content_type,
                api_key |-> request.api_key, vision |-> request.vision,
                status_code |-> response.status_code, error |-> response.error,
                books_detected |-> response.books_detected,
                enriched |-> response.enriched]
    /\ Saved

\* POST /scan, the whole request, given what scan_image made of it
PostScan(request, response) ==
    /\ IF response.books # <<>> THEN ScanBookshelf(response.books)
       ELSE UNCHANGED <<bookshelf, session>>
    /\ ServedScan("scan_bookshelf", request, response)

\* POST /audit/scan, the whole request, given what scan_image made of it
PostAuditScan(request, response) ==
    /\ IF response.books # <<>> THEN AuditScan(response.books)
       ELSE UNCHANGED <<bookshelf, session>>
    /\ ServedScan("audit_scan", request, response)

\* the log entry of POST /audit/apply
ServedApply(add_new_books, remove_missing_books) ==
    /\ last' = [op |-> "apply_audit_diff", before |-> Len(bookshelf.books),
                scanned |-> Len(session.scanned_books),
                add_new_books |-> add_new_books,
                remove_missing_books |-> remove_missing_books]
    /\ Saved

\* the log entry of GET /audit/diff: the diff it answered
ServedDiff(diff) == last' = [op |-> "get_audit_diff", diff |-> diff] /\ Saved

\* the log entry of a remove kept with the books it found
ServedRemove(title, author) ==
    /\ last' = [op |-> "remove_book", title |-> title, author |-> author,
                found |-> bookshelf.books]
    /\ Saved

\* the whole server logs only its applies
Unlogged == last' = [op |-> "other"] /\ Saved

\* BookshelfManager._save, step by step.  open(path, 'w') empties the file;
\* json.dump then writes the new document piece by piece; leaving the with
\* block closes the file.  In these steps bookshelf is the document of the
\* last save that ran to its end.
OpenForWrite(document) ==
    /\ ~file.open
    /\ file' = [content |-> <<>>, pending |-> json_dump(document), open |-> TRUE]
    /\ last' = [op |-> "open", new |-> document]
    /\ UNCHANGED <<bookshelf, session, tasks, running>>

\* add_books up to the open of its _save: _load, the new document, open
SaveAddBooks(books) ==
    LET loaded == json_load(file.content)
    IN /\ loaded.ok
       /\ LET added == add_books(loaded.document.books, books)
          IN /\ MaxOrderOf(added) <= MaxOrder
             /\ OpenForWrite(Stamped(added))

\* remove_book up to the open of its _save
SaveRemoveBook(title, author) ==
    LET loaded == json_load(file.content)
    IN /\ loaded.ok
       /\ OpenForWrite(Stamped(remove_book(loaded.document.books, title, author)))

\* clear_bookshelf up to the open of its _save: it does not load
SaveClearBookshelf == OpenForWrite(Stamped(clear_bookshelf))

\* one more piece of the document reaches the file
WriteChunk ==
    /\ file.open
    /\ file.pending # <<>>
    /\ file' = [content |-> Append(file.content, Head(file.pending)),
                pending |-> Tail(file.pending), open |-> TRUE]
    /\ UNCHANGED <<bookshelf, session, last, tasks, running>>

\* the with block is left after the last piece
CloseFile ==
    /\ file.open
    /\ file.pending = <<>>
    /\ file' = [file EXCEPT !.open = FALSE]
    /\ bookshelf' = last.new
    /\ last' = [op |-> "saved", new |-> last.new]
    /\ UNCHANGED <<session, tasks, running>>

\* the save fails or the process is stopped, at any point after the open:
\* the file stays as it is
Interrupted ==
    /\ file.open
    /\ file' = [content |-> file.content, pending |-> <<>>, open |-> FALSE]
    /\ last' = [op |-> "interrupted", new |-> last.new]
    /\ UNCHANGED <<bookshelf, session, tasks, running>>

ShelfNext ==
    \/ \E books \in Batches :
           ScanBookshelf(books) /\ Served("scan_bookshelf", Len(bookshelf.books))
    \/ \E book \in InputBooks :
           AddBook(book) /\ Served("add_book", Len(bookshelf.books))
    \/ \E n \in RemoveNames :
           RemoveBook(n[1], n[2]) /\ Served("remove_book", Len(bookshelf.books))
    \/ \E book_orders \in ReorderRequests :
           ReorderBooks(book_orders) /\ Served("reorder_books", Len(bookshelf.books))
    \/ ClearBookshelf /\ Served("clear_bookshelf", Len(bookshelf.books))

AuditNext ==
    \/ StartAudit /\ ServedAudit("start_audit", 0, 0)
    \/ \E books \in Batches :
           AuditScan(books) /\ ServedAudit("audit_scan", last.scans + 1, Len(books))
    \/ \E book \in InputBooks :
           /\ AuditAddManualBook(book)
           /\ ServedAudit("audit_add_manual_book", last.scans, 1)
    \/ \E n \in RemoveNames :
           /\ AuditRemoveBook(n[1], n[2])
           /\ ServedAudit("audit_remove_book", last.scans, 0)
    \/ ClearAudit /\ ServedAudit("clear_audit", 0, 0)

Next ==
    \/ \E books \in OneBookBatches : ScanBookshelf(books) /\ Unlogged
    \/ \E book \in InputBooks : AddBook(book) /\ Unlogged
    \/ \E n \in RemoveNames : RemoveBook(n[1], n[2]) /\ Unlogged
    \/ \E book_orders \in OneItemReorders : ReorderBooks(book_orders) /\ Unlogged
    \/ ClearBookshelf /\ Unlogged
    \/ StartAudit /\ Unlogged
    \/ \E books \in OneBookBatches : AuditScan(books) /\ Unlogged
    \/ \E book \in InputBooks : AuditAddManualBook(book) /\ Unlogged
    \/ \E n \in RemoveNames : AuditRemoveBook(n[1], n[2]) /\ Unlogged
    \/ ClearAudit /\ Unlogged
    \/ \E f \in Flags : ApplyAuditDiff(f[1], f[2]) /\ ServedApply(f[1], f[2])

\* the requests that put single books on the bookshelf and into the
\* session, move them and take them away, and the diff of the two stores
DiffNext ==
    \/ \E book \in InputBooks : AddBook(book) /\ Unlogged
    \/ \E n \in RemoveNames : RemoveBook(n[1], n[2]) /\ Unlogged
    \/ \E book_orders \in OneItemReorders : ReorderBooks(book_orders) /\ Unlogged
    \/ \E book \in InputBooks : AuditAddManualBook(book) /\ Unlogged
    \/ \E n \in RemoveNames : AuditRemoveBook(n[1], n[2]) /\ Unlogged
    \/ GetAuditDiff /\ ServedDiff(get_audit_diff(bookshelf, session))

\* single adds and reorders, which leave gaps and ties in the orders, and
\* removes
RenumberNext ==
    \/ \E book \in InputBooks : AddBook(book) /\ Unlogged
    \/ \E book_orders \in OneItemReorders : ReorderBooks(book_orders) /\ Unlogged
    \/ \E n \in RemoveNames : RemoveBook(n[1], n[2]) /\ ServedRemove(n[1], n[2])

\* scan_image on every request and every run of lookup answers
ScanResponses ==
    [request \in ScanRequests |->
        [replies \in RepliesFor(request) |-> scan_image(request, replies)]]

ScanNext ==
    \/ \E request \in ScanRequests : \E replies \in RepliesFor(request) :
           PostScan(request, ScanResponses[request][replies])
    \/ \E request \in ScanRequests : \E replies \in RepliesFor(request) :
           PostAuditScan(request, ScanResponses[request][replies])

(***************************************************************************)
(* Requests in flight.  Every handler is a coroutine on the one event loop *)
(* of the process: it holds the loop from step to step and gives it up     *)
(* only where it awaits.  A manager method is a plain function: its _load, *)
(* its change and its _save are steps of the handler that called it.       *)
(***************************************************************************)
Request(kind, books, title, author, book_orders, add_new_books, remove_missing_books) ==
    [kind |-> kind, books |-> books, title |-> title, author |-> author,
     book_orders |-> book_orders, add_new_books |-> add_new_books,
     remove_missing_books |-> remove_missing_books]

\* the requests that overlap: two scans of the bookshelf kind, two audit
\* scans, a manual add whose cover is looked up, a remove, a reorder, an apply
ConcurrentRequests ==
    {Request("scan_bookshelf", <<Book(Dune, Herbert, Some("c1"), 0)>>,
             <<>>, <<>>, <<>>, FALSE, FALSE),
     Request("audit_scan", <<Book(Dune, Herbert, Some("c1"), 0)>>,
             <<>>, <<>>, <<>>, FALSE, FALSE),
     Request("audit_scan", <<Book(Emma, Austen, None, 0)>>,
             <<>>, <<>>, <<>>, FALSE, FALSE),
     Request("add_book", <<Book(Emma, Austen, None, 0)>>,
             <<>>, <<>>, <<>>, FALSE, FALSE),
     Request("remove_book", <<>>, Dune, Herbert, <<>>, FALSE, FALSE),
     Request("reorder_books", <<>>, <<>>, <<>>,
             <<[title |-> Emma, author |-> Austen, order |-> 0]>>, FALSE, FALSE),
     Request("apply_audit_diff", <<>>, <<>>, <<>>, <<>>, TRUE, TRUE)}

\* the steps of each handler: what it awaits, and the _load and _save of
\* the manager methods it calls
program(kind) ==
    CASE kind = "scan_bookshelf" ->
            <<"image.read", "detect_books_in_image", "enrich_books_with_covers",
              "add_books._load", "add_books._save">>
      [] kind = "audit_scan" ->
            <<"image.read", "detect_books_in_image", "enrich_books_with_covers",
              "get_session._load",
              "add_scanned_books._load", "add_scanned_books._save">>
      [] kind = "add_book" ->
            <<"get_book_cover_url", "add_books._load", "add_books._save">>
      [] kind = "remove_book" -> <<"remove_book._load", "remove_book._save">>
      [] kind = "reorder_books" -> <<"reorder_books._load", "reorder_books._save">>
      [] kind = "apply_audit_diff" ->
            <<"get_bookshelf._load", "compute_diff._load",
              "add_books._load", "add_books._save",
              "remove_book._load", "remove_book._save",
              "clear_session._save", "get_bookshelf._load">>

\* the steps that are an await
Awaited ==
    {"image.read", "detect_books_in_image", "enrich_books_with_covers",
     "get_book_cover_url"}

\* the _load steps of the BookshelfManager and of the AuditSessionManager
BookshelfLoads ==
    {"get_bookshelf._load", "add_books._load", "remove_book._load",
     "reorder_books._load"}

SessionLoads ==
    {"get_session._load", "compute_diff._load", "add_scanned_books._load"}

\* mutant: a manager method gives up the event loop between _load and _save
yields_after_load(step) == step \in Awaited \cup BookshelfLoads \cup SessionLoads

\* does the handler give up the event loop after the step
yields_after(step) == step \in Awaited

\* a request as it starts: at its first step, nothing loaded, no diff
Started(request) ==
    [kind |-> request.kind, request |-> request, pc |-> 1,
     loaded |-> None, shelf |-> None, diff |-> None]

\* the local variables of the handler after the step
locals_after(task, step) ==
    IF step \in BookshelfLoads
    THEN [task EXCEPT !.loaded = Some(bookshelf),
                      !.shelf = IF step = "get_bookshelf._load"
                                THEN Some(bookshelf) ELSE @]
    ELSE IF step = "compute_diff._load"
    THEN [task EXCEPT !.loaded = Some(session),
                      !.diff = Some(compute_diff(session, task.shelf[1].books))]
    ELSE IF step \in SessionLoads THEN [task EXCEPT !.loaded = Some(session)]
    ELSE task

\* the bookshelf after the step: what the _save of a method writes from
\* what its _load read
bookshelf_after(task, step) ==
    LET loaded == task.loaded[1]
        r      == task.request
    IN CASE step = "add_books._save" /\ task.kind # "apply_audit_diff" ->
               Stamped(add_books(loaded.books, r.books))
         [] step = "add_books._save" /\ task.kind = "apply_audit_diff" ->
               IF r.add_new_books /\ task.diff[1].books_to_add # <<>>
               THEN Stamped(add_books(loaded.books, task.diff[1].books_to_add))
               ELSE bookshelf
         [] step = "remove_book._save" /\ task.kind # "apply_audit_diff" ->
               Stamped(remove_book(loaded.books, r.title, r.author))
         [] step = "remove_book._save" /\ task.kind = "apply_audit_diff" ->
               IF r.remove_missing_books /\ task.diff[1].books_to_remove # <<>>
               THEN Stamped(RemoveEach(loaded.books, task.diff[1].books_to_remove))
               ELSE bookshelf
         [] step = "reorder_books._save" ->
               Stamped(reorder_books(loaded.books, r.book_orders))
         [] OTHER -> bookshelf

\* the session after the step
session_after(task, step) ==
    CASE step = "add_scanned_books._save" ->
            add_scanned_books(task.loaded[1], task.request.books)
      [] step = "clear_session._save" -> clear_session
      [] OTHER -> session

\* what a handler does to the two stores when it runs alone
alone(request, stores) ==
    CASE request.kind \in {"scan_bookshelf", "add_book"} ->
            [stores EXCEPT !.bookshelf =
                Stamped(add_books(stores.bookshelf.books, request.books))]
      [] request.kind = "audit_scan" ->
            [stores EXCEPT !.session =
                add_scanned_books(stores.session, request.books)]
      [] request.kind = "remove_book" ->
            [stores EXCEPT !.bookshelf =
                Stamped(remove_book(stores.bookshelf.books,
                                    request.title, request.author))]
      [] request.kind = "reorder_books" ->
            [stores EXCEPT !.bookshelf =
                Stamped(reorder_books(stores.bookshelf.books, request.book_orders))]
      [] request.kind = "apply_audit_diff" ->
            [bookshelf |-> apply_audit_diff(stores.bookshelf, stores.session,
                                            request.add_new_books,
                                            request.remove_missing_books),
             session   |-> clear_session]

\* two requests are in flight and both have begun
Overlapping(ts) ==
    \E i, j \in 1..MaxInFlight :
        /\ i # j
        /\ ts[i] # NoTask /\ ts[i].pc > 1
        /\ ts[j] # NoTask /\ ts[j].pc > 1

\* the server with requests in flight starts as Init; its log counts the
\* requests received, notes whether two overlapped, and keeps the stores as
\* they would be had the requests, in the sequence they ended, run alone
ConcurrentInit ==
    /\ bookshelf = Bookshelf
    /\ session = AuditSession
    /\ file = Closed(Bookshelf)
    /\ tasks = [i \in 1..MaxInFlight |-> NoTask]
    /\ running = 0
    /\ last = [op |-> "concurrent", requests |-> 0, overlapped |-> FALSE,
               serial |-> [bookshelf |-> Bookshelf, session |-> AuditSession]]

\* a request arrives and waits for the event loop
Receive(request) ==
    /\ last.requests < MaxRequests
    /\ \E i \in 1..MaxInFlight :
          /\ tasks[i] = NoTask
          /\ \A j \in 1..(i - 1) : tasks[j] # NoTask
          /\ tasks' = [tasks EXCEPT ![i] = Started(request)]
    /\ last' = [last EXCEPT !.requests = @ + 1]
    /\ UNCHANGED <<bookshelf, session, file, running>>

\* the task that holds the event loop, or any task when none holds it,
\* runs the next step of its handler
Step(i) ==
    /\ tasks[i] # NoTask
    /\ running \in {0, i}
    /\ LET task  == tasks[i]
           steps == program(task.kind)
           step  == steps[task.pc]
           ended == task.pc = Len(steps)
       IN /\ bookshelf' = bookshelf_after(task, step)
          /\ session' = session_after(task, step)
          /\ file' = Closed(bookshelf')
          /\ tasks' = [tasks EXCEPT ![i] =
                          IF ended THEN NoTask
                          ELSE [locals_after(task, step) EXCEPT !.pc = @ + 1]]
          /\ running' = IF ended \/ yields_after(step) THEN 0 ELSE i
          /\ last' = [last EXCEPT
                         !.overlapped = @ \/ Overlapping(tasks'),
                         !.serial = IF ended THEN alone(task.request, @) ELSE @]

\* the handler awaits an external call
Await(i) == tasks[i] # NoTask /\ program(tasks[i].kind)[tasks[i].pc] \in Awaited /\ Step(i)

\* the handler runs the _load or the _save of a manager method
Call(i) == tasks[i] # NoTask /\ program(tasks[i].kind)[tasks[i].pc] \notin Awaited /\ Step(i)

ConcurrentNext ==
    \/ \E request \in ConcurrentRequests : Receive(request)
    \/ \E i \in 1..MaxInFlight : Await(i)
    \/ \E i \in 1..MaxInFlight : Call(i)

SaveNext ==
    \/ \E n \in Names : SaveAddBooks(<<Book(n[1], n[2], None, 0)>>)
    \/ \E n \in Names : SaveRemoveBook(n[1], n[2])
    \/ SaveClearBookshelf
    \/ WriteChunk
    \/ CloseFile
    \/ Interrupted

\* the bookshelf alone, every request logged
ShelfSpec == Init /\ [][ShelfNext]_vars

\* the audit session alone, every request logged
AuditSpec == Init /\ [][AuditNext]_vars

\* the two scan endpoints, from the upload to the response
ScanSpec == Init /\ [][ScanNext]_vars

\* the writes of the bookshelf file, step by step
SaveSpec == Init /\ [][SaveNext]_vars

\* requests that overlap on the event loop
ConcurrentSpec == ConcurrentInit /\ [][ConcurrentNext]_vars

\* the diff endpoint over the stores that single-book requests build
DiffSpec == Init /\ [][DiffNext]_vars

\* removes from the shelves that single adds and reorders build
RenumberSpec == Init /\ [][RenumberNext]_vars

\* the whole server, one book or one order item per request
Spec == Init /\ [][Next]_vars

(***************************************************************************)
(* Vocabulary of the properties.                                           *)
(***************************************************************************)
\* a book without its position
Unordered(b) == [title |-> b.title, author |-> b.author, cover_url |-> b.cover_url]

UnorderedAll(books) == [i \in 1..Len(books) |-> Unordered(books[i])]

OrdersOf(books) == [i \in 1..Len(books) |-> books[i].order]

\* s can be obtained from t by deleting items
RECURSIVE IsSubsequence(_, _)
IsSubsequence(s, t) ==
    IF s = <<>> THEN TRUE
    ELSE IF t = <<>> THEN FALSE
    ELSE IF Head(s) = Head(t) THEN IsSubsequence(Tail(s), Tail(t))
    ELSE IsSubsequence(s, Tail(t))

\* the spec's normalised key of a (title, author) pair
NormalKey(title, author) == <<strip(lower(title)), strip(lower(author))>>

NormalKeys(books) ==
    {NormalKey(books[i].title, books[i].author) : i \in 1..Len(books)}

IsApply(l, add_new_books, remove_missing_books) ==
    /\ l.op = "apply_audit_diff"
    /\ l.add_new_books = add_new_books
    /\ l.remove_missing_books = remove_missing_books

DiffNow == compute_diff(session, bookshelf.books)

(***************************************************************************)
(* C1.  Diff, apply with add_new and remove_missing, diff again.           *)
(***************************************************************************)
\* C1 as claimed: after an apply with both flags set, the diff computed next
\* has books_to_add, books_to_remove and books_matching all empty.
C1_DiffEmptyAfterApply ==
    IsApply(last, TRUE, TRUE) =>
        /\ DiffNow.books_to_add = <<>>
        /\ DiffNow.books_to_remove = <<>>
        /\ DiffNow.books_matching = <<>>

\* C1 amended: after an apply with both flags set, the diff computed next has
\* books_to_add and books_matching empty, and books_to_remove is the whole
\* bookshelf the apply left (the session was cleared, so every book that was
\* kept or added now counts as missing).
C1_DiffAfterApplyListsShelf ==
    IsApply(last, TRUE, TRUE) =>
        /\ DiffNow.books_to_add = <<>>
        /\ DiffNow.books_matching = <<>>
        /\ DiffNow.books_to_remove = bookshelf.books

\* an apply with both flags that changed the number of books and left some
C1_Witness ==
    /\ IsApply(last, TRUE, TRUE)
    /\ Len(bookshelf.books) >= 2
    /\ last.before # Len(bookshelf.books)

(***************************************************************************)
(* C2.  add of a key that is on the shelf keeps the entry's order.         *)
(***************************************************************************)
\* C2: when a single book is added whose key is on the shelf (here in the
\* plainest way: a stored entry has the very same title and author), the shelf
\* then holds the incoming title, author and cover_url at the order that entry
\* had before.
C2_AddKeepsOrder ==
    [][\A book \in InputBooks :
          (last'.op = "add_book" /\ AddBook(book)) =>
              \A i \in 1..Len(bookshelf.books) :
                  (/\ bookshelf.books[i].title = book.title
                   /\ bookshelf.books[i].author = book.author)
                  => \E j \in 1..Len(bookshelf'.books) :
                        bookshelf'.books[j]
                            = Book(book.title, book.author, book.cover_url,
                                   bookshelf.books[i].order)
      ]_vars

(***************************************************************************)
(* C3.  add gives new books fresh, distinct, trailing orders.              *)
(***************************************************************************)
\* the positions of the books whose key was not among `before`
NewPositions(before, after) ==
    {j \in 1..Len(after) :
        NormalKey(after[j].title, after[j].author) \notin NormalKeys(before)}

\* C3: after an add, every book whose key was not on the shelf before has an
\* order above every order present before, and no two such books share an order.
C3_NewBooksGetFreshOrders ==
    [][last'.op \in {"scan_bookshelf", "add_book"} =>
          LET before == bookshelf.books
              after  == bookshelf'.books
              new    == NewPositions(before, after)
          IN /\ \A j \in new : \A i \in 1..Len(before) :
                    after[j].order > before[i].order
             /\ \A j, k \in new : j # k => after[j].order # after[k].order
      ]_vars

(***************************************************************************)
(* C4.  No two books of the bookshelf share a book_key.                    *)
(***************************************************************************)
\* C4: no two books on the persisted bookshelf have the same lower-cased and
\* trimmed (title, author).
C4_ShelfKeysUnique ==
    \A i, j \in 1..Len(bookshelf.books) :
        i # j => NormalKey(bookshelf.books[i].title, bookshelf.books[i].author)
                 # NormalKey(bookshelf.books[j].title, bookshelf.books[j].author)

(***************************************************************************)
(* C5.  remove renumbers the remaining books 0..n-1 in their sequence.     *)
(***************************************************************************)
\* C5: after a remove on a shelf that held a book of the requested key, the
\* remaining books carry the orders 0, 1, ..., n-1 and stand in the relative
\* sequence they had before.
C5_RemoveRenumbers ==
    [][\A n \in RemoveNames :
          (last'.op = "remove_book" /\ RemoveBook(n[1], n[2])
           /\ NormalKey(n[1], n[2]) \in NormalKeys(bookshelf.books)) =>
              /\ OrdersOf(bookshelf'.books)
                    = [i \in 1..Len(bookshelf'.books) |-> i - 1]
              /\ IsSubsequence(UnorderedAll(bookshelf'.books),
                               UnorderedAll(bookshelf.books))
      ]_vars

\* a remove that took a book away and left at least two
C5_Witness ==
    /\ last.op = "remove_book"
    /\ last.before > Len(bookshelf.books)
    /\ Len(bookshelf.books) >= 2

(***************************************************************************)
(* C6.  remove takes away exactly the books of the normalised key.         *)
(***************************************************************************)
\* C6: remove(title, author) removes every shelf book whose lower-cased and
\* trimmed (title, author) equals that of the arguments, and no other book.
C6_RemoveByNormalKey ==
    [][\A n \in RemoveNames :
          (last'.op = "remove_book" /\ RemoveBook(n[1], n[2])) =>
              UnorderedAll(bookshelf'.books)
                  = UnorderedAll(
                        SelectWhere(bookshelf.books,
                            [i \in 1..Len(bookshelf.books) |->
                                NormalKey(bookshelf.books[i].title,
                                          bookshelf.books[i].author)
                                    # NormalKey(n[1], n[2])]))
      ]_vars

(***************************************************************************)
(* C7.  The persisted books are sorted by order.                           *)
(***************************************************************************)
\* C7: in every state the persisted books list is ascending (not strictly) in
\* order.
C7_ShelfSorted ==
    \A i \in 1..(Len(bookshelf.books) - 1) :
        bookshelf.books[i].order <= bookshelf.books[i + 1].order

\* an apply that left three books whose orders are not all equal
C7_Witness ==
    /\ last.op = "apply_audit_diff"
    /\ Len(bookshelf.books) = 3
    /\ bookshelf.books[1].order < bookshelf.books[3].order

(***************************************************************************)
(* C8.  reorder is idempotent.                                             *)
(***************************************************************************)
\* C8: whatever the shelf and the order mapping, reordering the reordered
\* shelf by the same mapping changes neither the sequence nor the orders.
C8_ReorderIdempotent ==
    \A book_orders \in ReorderRequests :
        LET once == reorder_books(bookshelf.books, book_orders)
        IN reorder_books(once, book_orders) = once

\* a reorder that left two books of different keys tied on one order
C8_Witness ==
    /\ last.op = "reorder_books"
    /\ Len(bookshelf.books) >= 3
    /\ \E i, j \in 1..Len(bookshelf.books) :
          i # j /\ bookshelf.books[i].order = bookshelf.books[j].order

(***************************************************************************)
(* C9.  The diff partitions the keys.                                      *)
(***************************************************************************)
\* C9: no key is in both books_to_add and books_to_remove, and every key of
\* the session or the bookshelf is in exactly one of the three buckets.
C9_DiffPartitionsKeys ==
    LET A == NormalKeys(DiffNow.books_to_add)
        R == NormalKeys(DiffNow.books_to_remove)
        M == NormalKeys(DiffNow.books_matching)
    IN /\ A \cap R = {}
       /\ \A k \in NormalKeys(session.scanned_books) \cup NormalKeys(bookshelf.books) :
             \/ k \in A /\ k \notin R /\ k \notin M
             \/ k \notin A /\ k \in R /\ k \notin M
             \/ k \notin A /\ k \notin R /\ k \in M

\* books to add and several books to remove at once
C9_Witness ==
    /\ DiffNow.books_to_add # <<>>
    /\ Len(DiffNow.books_to_remove) >= 2

(***************************************************************************)
(* C10.  A repeat scan never takes a cover away.                           *)
(***************************************************************************)
\* C10: an audit scan keeps every session entry that has a cover as it is, and
\* changes an entry only from one without a cover to one with a cover.
C10_ScanKeepsCovers ==
    [][last'.op = "audit_scan" =>
          \A i \in 1..Len(session.scanned_books) :
              LET old == session.scanned_books[i]
              IN \E j \in 1..Len(session'.scanned_books) :
                    LET new == session'.scanned_books[j]
                    IN /\ NormalKey(new.title, new.author)
                             = NormalKey(old.title, old.author)
                       /\ Truthy(old.cover_url) => new = old
                       /\ new # old =>
                             ~Truthy(old.cover_url) /\ Truthy(new.cover_url)
      ]_vars

\* a second scan that brought no new key to a session whose one entry has a cover
C10_Witness ==
    /\ last.op = "audit_scan"
    /\ session.photos_taken = 2
    /\ last.before = 1
    /\ Len(session.scanned_books) = 1
    /\ Truthy(session.scanned_books[1].cover_url)

(***************************************************************************)
(* C11.  apply with add_new alone appends the new books and keeps the rest.*)
(***************************************************************************)
\* the session books whose key is not on the shelf, in the session's sequence
SessionBooksNotOn(shelf_books) ==
    SelectWhere(session.scanned_books,
        [i \in 1..Len(session.scanned_books) |->
            NormalKey(session.scanned_books[i].title,
                      session.scanned_books[i].author)
                \notin NormalKeys(shelf_books)])

\* C11: an apply with add_new set and remove_missing unset leaves the books
\* that were on the bookshelf as they were (title, author, cover_url, order,
\* position) and appends the session books whose key was not on the bookshelf,
\* in the session's sequence, with the orders max+1, max+2, ...
C11_ApplyAddAppends ==
    [][IsApply(last', TRUE, FALSE) =>
          LET new == SessionBooksNotOn(bookshelf.books)
              max == MaxOrderOf(bookshelf.books)
          IN bookshelf'.books
                 = bookshelf.books
                   \o [i \in 1..Len(new) |->
                          Book(new[i].title, new[i].author, new[i].cover_url,
                               max + i)]
      ]_vars

\* an apply with add_new alone that appended one book to a shelf that had some
C11_Witness ==
    /\ IsApply(last, TRUE, FALSE)
    /\ last.before >= 1
    /\ Len(bookshelf.books) = last.before + 1
    /\ bookshelf.books[Len(bookshelf.books)].order >= 1

(***************************************************************************)
(* C12.  apply with remove_missing removes exactly the missing books.      *)
(***************************************************************************)
\* the shelf books whose key is in the session, in the shelf's sequence
ShelfBooksInSession ==
    SelectWhere(bookshelf.books,
        [i \in 1..Len(bookshelf.books) |->
            NormalKey(bookshelf.books[i].title, bookshelf.books[i].author)
                \in NormalKeys(session.scanned_books)])

\* C12: an apply with remove_missing set leaves, of the books that were on
\* the bookshelf, exactly those whose key is in the session, in their prior
\* sequence (followed by the appended session books when add_new is set too);
\* when a book was removed the books left carry the orders 0, 1, ..., n-1;
\* and with an empty session the bookshelf ends empty.
C12_ApplyRemovesMissing ==
    [][(last'.op = "apply_audit_diff" /\ last'.remove_missing_books) =>
          LET kept  == ShelfBooksInSession
              added == IF last'.add_new_books
                       THEN SessionBooksNotOn(bookshelf.books) ELSE <<>>
          IN /\ UnorderedAll(bookshelf'.books)
                    = UnorderedAll(kept) \o UnorderedAll(added)
             /\ Len(kept) < Len(bookshelf.books) =>
                    OrdersOf(bookshelf'.books)
                        = [i \in 1..Len(bookshelf'.books) |-> i - 1]
             /\ session.scanned_books = <<>> => bookshelf'.books = <<>>
      ]_vars

\* an apply with remove_missing alone that removed a book and left two
C12_Witness ==
    /\ IsApply(last, FALSE, TRUE)
    /\ last.before > Len(bookshelf.books)
    /\ Len(bookshelf.books) = 2

(***************************************************************************)
(* C13.  apply always ends with the default session.                       *)
(***************************************************************************)
\* C13: after an apply, whatever its two flags and whether or not the diff
\* was empty, the audit session has no scanned books, photos_taken 0, and
\* started_at and last_scan_at unset.
C13_ApplyClearsSession ==
    last.op = "apply_audit_diff" =>
        /\ session.scanned_books = <<>>
        /\ session.photos_taken = 0
        /\ session.started_at = None
        /\ session.last_scan_at = None

\* an apply with both flags unset on a session that held two books
C13_Witness ==
    /\ IsApply(last, FALSE, FALSE)
    /\ last.scanned = 2
    /\ bookshelf.books # <<>>

(***************************************************************************)
(* C19.  photos_taken counts the add_scanned_books calls.                  *)
(***************************************************************************)
\* C19: in every state of the audit session, photos_taken is the number of
\* add_scanned_books calls made since the session was last started or cleared
\* (or since creation): a call counts one whatever its books, and a manual
\* add or a removal counts nothing.
C19_PhotosCountScans == session.photos_taken = last.scans

\* two photos, then removals that emptied the session
C19_Witness ==
    /\ last.op = "audit_remove_book"
    /\ last.scans = 2
    /\ session.scanned_books = <<>>

(***************************************************************************)
(* C20.  start and clear reset the session; adding starts it again.        *)
(***************************************************************************)
\* C20: whatever the session was, start leaves no scanned books,
\* photos_taken 0, last_scan_at unset and started_at set; clear leaves the
\* same with started_at unset; and an add_scanned_books or add_manual_book
\* on a session whose started_at is unset (as clear leaves it) sets it.
C20_StartClearThenAdd ==
    [][/\ last'.op = "start_audit" =>
             /\ session'.scanned_books = <<>>
             /\ session'.photos_taken = 0
             /\ session'.last_scan_at = None
             /\ session'.started_at # None
       /\ last'.op = "clear_audit" =>
             /\ session'.scanned_books = <<>>
             /\ session'.photos_taken = 0
             /\ session'.last_scan_at = None
             /\ session'.started_at = None
       /\ (/\ last'.op \in {"audit_scan", "audit_add_manual_book"}
           /\ session.started_at = None) =>
             session'.started_at # None
      ]_vars

\* a manual add on an empty session that was not started
C20_Witness ==
    /\ last.op = "audit_add_manual_book"
    /\ ~last.started
    /\ last.scans = 0
    /\ last.before = 0
    /\ session.started_at # None

(***************************************************************************)
(* C14.  A rejected scan changes neither store.                            *)
(***************************************************************************)
\* C14: a scan or audit scan whose upload has an unsupported MIME type, or
\* that finds no credential, or whose call of the vision model raises, ends
\* with an error status and leaves the bookshelf and the audit session
\* (books, photos_taken, timestamps) exactly as they were.
C14_RejectedScanChangesNothing ==
    [][(/\ last'.op \in {"scan_bookshelf", "audit_scan"}
        /\ \/ last'.content_type \notin
                  {"image/jpeg", "image/png", "image/gif", "image/webp"}
           \/ ~last'.api_key
           \/ last'.vision.raises) =>
          /\ last'.status_code >= 400
          /\ bookshelf' = bookshelf
          /\ session' = session
      ]_vars

\* an audit scan that ended 500 on a failing vision call, with books on the
\* shelf and photos in the session
C14_Witness ==
    /\ last.op = "audit_scan"
    /\ last.content_type = "image/png"
    /\ last.api_key
    /\ last.vision.raises
    /\ last.status_code = 500
    /\ bookshelf.books # <<>>
    /\ session.photos_taken >= 1

(***************************************************************************)
(* C16.  The cover lookup never raises.                                    *)
(***************************************************************************)
\* C16: whatever the lookups answer, a scan or audit scan whose detection
\* found N books (N > 0) gets N entries back from the enrichment: no lookup
\* raises, so the enrichment always completes.
C16_LookupNeverRaises ==
    (last.op \in {"scan_bookshelf", "audit_scan"} /\ last.books_detected > 0)
        => last.enriched = Some(last.books_detected)

(***************************************************************************)
(* C17.  An answer of another structure counts as no books.                *)
(***************************************************************************)
\* the sample answers that are an object with a books list of
\* {title, author} entries
ExpectedAnswers ==
    {EmptyBooksText, OneBookText, OneBookLine, FencedTwoBooks,
     PaddedFencedOneBook}

\* C17: when the call of the vision model succeeds and its answer is not of
\* the expected structure (no JSON, or JSON that is not an object with a
\* books list of {title, author} entries), the scan or audit scan answers
\* 200 with zero detected books and leaves both stores as they were.
C17_UnparseableAnswerGivesNoBooks ==
    [][(/\ last'.op \in {"scan_bookshelf", "audit_scan"}
        /\ last'.content_type = "image/png"
        /\ last'.api_key
        /\ ~last'.vision.raises
        /\ last'.vision.text \notin ExpectedAnswers) =>
          /\ last'.status_code = 200
          /\ last'.books_detected = 0
          /\ bookshelf' = bookshelf
          /\ session' = session
      ]_vars

(***************************************************************************)
(* C18.  A save that fails leaves a complete document.                     *)
(***************************************************************************)
\* C18: after a save that failed or was interrupted, at whatever step, the
\* file holds the complete previous document or the complete new document.
C18_InterruptedSaveLeavesDocument ==
    last.op = "interrupted" =>
        \/ file.content = json_dump(bookshelf)
        \/ file.content = json_dump(last.new)

(***************************************************************************)
(* C15.  Requests in flight at once leave what a serial run leaves.        *)
(***************************************************************************)
\* C15: with several requests in flight, whenever no handler holds the
\* event loop the bookshelf and the audit session are what the requests
\* ended so far leave when run alone one after another, in the sequence
\* they ended: no update is lost.
C15_ConcurrentRequestsSerialize ==
    (last.op = "concurrent" /\ running = 0) =>
        /\ bookshelf = last.serial.bookshelf
        /\ session = last.serial.session

\* two audit scans were in flight at once, both ended, and the session has
\* the book of each and two photos
C15_Witness ==
    /\ last.op = "concurrent"
    /\ last.requests = 2
    /\ last.overlapped
    /\ \A i \in 1..MaxInFlight : tasks[i] = NoTask
    /\ session.photos_taken = 2
    /\ Len(session.scanned_books) = 2

(***************************************************************************)
(* C21.  The three lists of the diff, their sequence and their copies.     *)
(***************************************************************************)
\* r lists, in the sequence they have in source, the books of source at the
\* wanted places and no other
ListsExactly(r, source, wanted) ==
    /\ IsSubsequence(r, source)
    /\ Len(r) = Cardinality({i \in 1..Len(source) : wanted[i]})
    /\ \A j \in 1..Len(r) : \E i \in 1..Len(source) : wanted[i] /\ source[i] = r[j]

\* the places of books whose normalised key is (or is not) among keys
KeyAmong(books, keys, among) ==
    [i \in 1..Len(books) |->
        (NormalKey(books[i].title, books[i].author) \in keys) = among]

\* C21: the diff answered for a bookshelf and a session has as books_to_add
\* the session books whose key is not on the bookshelf, in the sequence the
\* session stores them; as books_to_remove the bookshelf books whose key is
\* not in the session, in the sequence the bookshelf stores them; as
\* books_matching the session's copies of the books whose key is in both, in
\* the session's sequence; and computing it changes neither store.
C21_DiffListsInStoredOrder ==
    [][last'.op = "get_audit_diff" =>
          LET shelf_keys   == NormalKeys(bookshelf.books)
              session_keys == NormalKeys(session.scanned_books)
          IN /\ ListsExactly(last'.diff.books_to_add, session.scanned_books,
                             KeyAmong(session.scanned_books, shelf_keys, FALSE))
             /\ ListsExactly(last'.diff.books_to_remove, bookshelf.books,
                             KeyAmong(bookshelf.books, session_keys, FALSE))
             /\ ListsExactly(last'.diff.books_matching, session.scanned_books,
                             KeyAmong(session.scanned_books, shelf_keys, TRUE))
             /\ bookshelf' = bookshelf
             /\ session' = session
      ]_vars

\* a diff with two matching books that the session stores in the other
\* sequence than the bookshelf, the first in a copy the bookshelf does not hold
C21_Witness ==
    /\ last.op = "get_audit_diff"
    /\ Len(last.diff.books_matching) = 2
    /\ Len(bookshelf.books) = 2
    /\ NormalKey(last.diff.books_matching[1].title, last.diff.books_matching[1].author)
          = NormalKey(bookshelf.books[2].title, bookshelf.books[2].author)
    /\ last.diff.books_matching[1] # bookshelf.books[2]

(***************************************************************************)
(* C22.  reorder sets the supplied orders and sorts, nothing else.         *)
(***************************************************************************)
\* the orders the request supplies for the key of the book
SuppliedOrders(book, book_orders) ==
    {book_orders[k].order :
        k \in {k \in 1..Len(book_orders) :
                  NormalKey(book_orders[k].title, book_orders[k].author)
                      = NormalKey(book.title, book.author)}}

\* C22: a reorder leaves the stable sort by order of the shelf's books, each
\* with its title, author and cover_url, a book whose lower-cased and trimmed
\* key appears in the request carrying an order supplied for it and every
\* other book the order it had; no book is added or removed.
C22_ReorderSetsSuppliedOrders ==
    [][\A book_orders \in ReorderRequests :
          (last'.op = "reorder_books" /\ ReorderBooks(book_orders)) =>
              \E orders \in [1..Len(bookshelf.books) -> 0..MaxOrder] :
                  /\ \A i \in 1..Len(bookshelf.books) :
                        LET supplied == SuppliedOrders(bookshelf.books[i], book_orders)
                        IN IF supplied = {}
                           THEN orders[i] = bookshelf.books[i].order
                           ELSE orders[i] \in supplied
                  /\ bookshelf'.books
                        = sorted_by_order(
                              [i \in 1..Len(bookshelf.books) |->
                                  Book(bookshelf.books[i].title,
                                       bookshelf.books[i].author,
                                       bookshelf.books[i].cover_url, orders[i])])
      ]_vars

(***************************************************************************)
(* C23.  A session removal drops the books of the key and nothing else.    *)
(***************************************************************************)
\* C23: a removal from the audit session drops exactly the session books
\* whose lower-cased and trimmed key is that of the arguments, keeps the
\* other books in the sequence they are stored in, and leaves photos_taken,
\* started_at and last_scan_at as they were.
C23_SessionRemoveDropsKey ==
    [][\A n \in RemoveNames :
          (last'.op = "audit_remove_book" /\ AuditRemoveBook(n[1], n[2])) =>
              /\ ListsExactly(session'.scanned_books, session.scanned_books,
                              KeyAmong(session.scanned_books,
                                       {NormalKey(n[1], n[2])}, FALSE))
              /\ session'.photos_taken = session.photos_taken
              /\ session'.started_at = session.started_at
              /\ session'.last_scan_at = session.last_scan_at
      ]_vars

\* a removal that took the first of two books from a session of one photo
C23_Witness ==
    /\ last.op = "audit_remove_book"
    /\ last.before = 2
    /\ last.scans = 1
    /\ session.photos_taken = 1
    /\ Len(session.scanned_books) = 1
    /\ NormalKey(session.scanned_books[1].title, session.scanned_books[1].author)
          = NormalKey(Emma, Austen)

(***************************************************************************)
(* C24.  A manual add always puts the incoming book in the place of its key.*)
(***************************************************************************)
\* C24: after a manual add the session holds the incoming book as the one
\* entry of its key, whether or not the key was there and even when the
\* stored entry had a cover and the incoming book has none; last_scan_at is
\* set; and every entry of another key is there unchanged.
C24_ManualAddReplaces ==
    [][\A book \in InputBooks :
          (last'.op = "audit_add_manual_book" /\ AuditAddManualBook(book)) =>
              LET old == session.scanned_books
                  new == session'.scanned_books
                  key == NormalKey(book.title, book.author)
              IN /\ \A j \in 1..Len(new) :
                        NormalKey(new[j].title, new[j].author) = key => new[j] = book
                 /\ Cardinality({j \in 1..Len(new) : new[j] = book}) = 1
                 /\ ListsExactly(SelectWhere(new, KeyAmong(new, {key}, FALSE)),
                                 old, KeyAmong(old, {key}, FALSE))
                 /\ session'.last_scan_at = Some(Now)
      ]_vars

\* a manual add without a cover to a session whose one book, of the same
\* key, had a cover: the session holds the book without the cover
C24_Witness ==
    /\ last.op = "audit_add_manual_book"
    /\ last.before = 1
    /\ last.covers = 1
    /\ Len(session.scanned_books) = 1
    /\ session.scanned_books[1].cover_url = None

(***************************************************************************)
(* C25.  No two books of the audit session share a book_key.               *)
(***************************************************************************)
\* C25: in every state that start, scans, manual adds, removals and clear
\* lead to, no two books of the session's scanned_books have the same
\* lower-cased and trimmed (title, author), also after a scan whose batch
\* holds one key several times.
C25_SessionKeysUnique ==
    \A i, j \in 1..Len(session.scanned_books) :
        i # j => NormalKey(session.scanned_books[i].title,
                           session.scanned_books[i].author)
                   # NormalKey(session.scanned_books[j].title,
                               session.scanned_books[j].author)

\* a scan of two books of one key into an empty session, which holds one
C25_Witness ==
    /\ last.op = "audit_scan"
    /\ last.received = 2
    /\ last.before = 0
    /\ Len(session.scanned_books) = 1

(***************************************************************************)
(* C26.  A session with content or activity has been started.              *)
(***************************************************************************)
\* C26: in every state that start, scans, manual adds, removals and clear
\* lead to from the empty default, started_at is set whenever scanned_books
\* is not empty, photos_taken is above 0 or last_scan_at is set, and
\* last_scan_at is set whenever photos_taken is above 0.
C26_ActivityImpliesStarted ==
    /\ (\/ session.scanned_books # <<>>
        \/ session.photos_taken > 0
        \/ session.last_scan_at # None) => session.started_at # None
    /\ session.photos_taken > 0 => session.last_scan_at # None

\* the first scan of a session that had not been started
C26_Witness ==
    /\ last.op = "audit_scan"
    /\ ~last.started
    /\ session.photos_taken = 1
    /\ session.scanned_books # <<>>
    /\ session.started_at # None
    /\ session.last_scan_at # None

(***************************************************************************)
(* C27.  A remove that matches nothing still renumbers the shelf.          *)
(***************************************************************************)
\* C27: a remove whose lower-cased and trimmed key is that of no book on the
\* shelf leaves the same books in the same sequence with the same title,
\* author and cover_url, and gives every book its index 0..n-1 as order,
\* whatever gaps or ties the orders had.
C27_RemoveOfAbsentKeyRenumbers ==
    [][\A n \in RemoveNames :
          (/\ last'.op = "remove_book"
           /\ RemoveBook(n[1], n[2])
           /\ NormalKey(n[1], n[2]) \notin NormalKeys(bookshelf.books)) =>
              /\ UnorderedAll(bookshelf'.books) = UnorderedAll(bookshelf.books)
              /\ OrdersOf(bookshelf'.books)
                    = [i \in 1..Len(bookshelf.books) |-> i - 1]
      ]_vars

\* a remove of a key absent from a shelf of two books whose orders were not
\* 0 and 1: the two books are there, numbered 0 and 1
C27_Witness ==
    /\ last.op = "remove_book"
    /\ NormalKey(last.title, last.author) \notin NormalKeys(last.found)
    /\ Len(last.found) = 2
    /\ OrdersOf(last.found) # <<0, 1>>
    /\ UnorderedAll(bookshelf.books) = UnorderedAll(last.found)
    /\ OrdersOf(bookshelf.books) = <<0, 1>>

====
